---- MODULE Spec2Model ----
(***************************************************************************)
(* A model of src/main.py: the crawl driver `main`, the fetch-and-cache    *)
(* routine `fetch_ssr_props`, the tree merger `merge_oas_definitions` and  *)
(* the recovery parser `parse_truncated_json`.                             *)
(*                                                                         *)
(* Python dicts are objects with identity.  The merger stores references   *)
(* to the nested dicts of the fragments it is given, so the model keeps a  *)
(* heap: a function from object identifiers to dict contents whose entries *)
(* are either atoms (strings) or references to other heap objects.         *)
(* JSON documents on disk or on the wire are plain values (nested          *)
(* functions); json.load turns such a value into fresh heap objects.       *)
(* The insertion order of dict keys is not modelled.                       *)
(***************************************************************************)
EXTENDS Integers, Sequences, FiniteSets, TLC

\* The longest page list (over all reference groups) the start page may announce.
MaxPages == 3

Slugs == {"s1", "s2"}

-----------------------------------------------------------------------------
(* Dicts *)

EmptyDict == [k \in {} |-> ""]

\* d.update(e)
dict_update(d, e) ==
    [k \in DOMAIN d \cup DOMAIN e |-> IF k \in DOMAIN e THEN e[k] ELSE d[k]]

\* dict_del that misses the key "_id".
dict_del_MissesId(d, ks) == [k \in DOMAIN d \ (ks \ {"_id"}) |-> d[k]]

\* del d[key] for each key of ks that d has
dict_del(d, ks) == [k \in DOMAIN d \ ks |-> d[k]]

-----------------------------------------------------------------------------
(* Heap objects *)

\* Identity of a dict object: the fragment it was created for (0: created by
\* main itself) and the place it had in that fragment when it was created.
Oid(f, loc) == [f |-> f, loc |-> loc]

NullOid == Oid(0, <<"None">>)

Atom(s) == [k |-> "atom", s |-> s, id |-> NullOid]
Ref(o) == [k |-> "ref", s |-> "", id |-> o]

\* json.load of an oasDefinition document `tree`, as fragment number f: every
\* nested dict becomes a fresh object.  Operation objects and component field
\* values are leaves here: no code of the program writes into them.
LoadDomain(tree, f) ==
    {Oid(f, <<>>)}
    \cup (IF "paths" \in DOMAIN tree
          THEN {Oid(f, <<"paths">>)}
               \cup {Oid(f, <<"paths", p>>) : p \in DOMAIN tree["paths"]}
          ELSE {})
    \cup (IF "components" \in DOMAIN tree
          THEN {Oid(f, <<"components">>)}
               \cup {Oid(f, <<"components", s>>) : s \in DOMAIN tree["components"]}
               \cup UNION {{Oid(f, <<"components", s, n>>) : n \in DOMAIN tree["components"][s]}
                           : s \in DOMAIN tree["components"]}
          ELSE {})

LoadObject(tree, f, loc) ==
    IF loc = <<>>
    THEN [k \in DOMAIN tree |->
            IF k \in {"paths", "components"} THEN Ref(Oid(f, <<k>>)) ELSE Atom(tree[k])]
    ELSE IF loc[1] = "paths"
    THEN IF Len(loc) = 1
         THEN [p \in DOMAIN tree["paths"] |-> Ref(Oid(f, <<"paths", p>>))]
         ELSE [m \in DOMAIN tree["paths"][loc[2]] |-> Atom(tree["paths"][loc[2]][m])]
    ELSE IF Len(loc) = 1
         THEN [s \in DOMAIN tree["components"] |-> Ref(Oid(f, <<"components", s>>))]
    ELSE IF Len(loc) = 2
         THEN [n \in DOMAIN tree["components"][loc[2]] |->
                  Ref(Oid(f, <<"components", loc[2], n>>))]
    ELSE [x \in DOMAIN tree["components"][loc[2]][loc[3]] |->
              Atom(tree["components"][loc[2]][loc[3]][x])]

json_load(tree, f) == [o \in LoadDomain(tree, f) |-> LoadObject(tree, f, o.loc)]

\* The JSON value of the objects reachable from a dict (what json.dump writes).
PathsVal(h, po) ==
    [p \in DOMAIN h[po] |-> [m \in DOMAIN h[h[po][p].id] |-> h[h[po][p].id][m].s]]

ComponentsVal(h, co) ==
    [s \in DOMAIN h[co] |->
        [n \in DOMAIN h[h[co][s].id] |->
            [x \in DOMAIN h[h[h[co][s].id][n].id] |-> h[h[h[co][s].id][n].id][x].s]]]

TreeVal(h, top) ==
    [k \in DOMAIN h[top] |->
        IF k = "paths" THEN PathsVal(h, h[top][k].id)
        ELSE IF k = "components" THEN ComponentsVal(h, h[top][k].id)
        ELSE h[top][k].s]

-----------------------------------------------------------------------------
(* merge_oas_definitions *)

\* paths_entries without the insertion of line 164: a path the tree lacks is
\* not added.
paths_entries_NoInsert(bp, np) == [p \in DOMAIN bp |-> bp[p]]

\* merged["paths"] after the loop of lines 162-166: a path the tree lacks is
\* bound to the fragment's own method-map object; a path it has keeps its
\* object (which line 166 updates in place).
paths_entries(bp, np) ==
    [p \in DOMAIN bp \cup DOMAIN np |-> IF p \in DOMAIN bp THEN bp[p] ELSE np[p]]

\* merge_methods with the update turned round: the tree's operation is kept
\* for a method both have.
merge_methods_FirstWins(existing, methods) == dict_update(methods, existing)

\* merge_methods that takes a method both have for a clash and drops it.
merge_methods_Toggle(existing, methods) ==
    [m \in (DOMAIN existing \ DOMAIN methods) \cup (DOMAIN methods \ DOMAIN existing) |->
        IF m \in DOMAIN methods THEN methods[m] ELSE existing[m]]

\* merged["paths"][path].update(methods)
merge_methods(existing, methods) == dict_update(existing, methods)

\* Lines 161-166 on the heap.  bp is the tree's paths dict (base.copy() is
\* shallow, so merged["paths"] is base["paths"]), np the fragment's.
merge_paths(h, base, new) ==
    IF "paths" \notin DOMAIN h[new] THEN h
    ELSE LET bp == h[base]["paths"].id
             np == h[new]["paths"].id
             both == DOMAIN h[bp] \cap DOMAIN h[np]
         IN [o \in DOMAIN h |->
                IF o = bp THEN paths_entries(h[bp], h[np])
                ELSE IF \E p \in both : h[bp][p].id = o
                THEN LET p == CHOOSE q \in both : h[bp][q].id = o
                     IN merge_methods(h[o], h[h[np][p].id])
                ELSE h[o]]

\* merged["components"][section] after lines 173-175: names the section lacks
\* are bound to the fragment's own item objects.
section_entries(bs, ns) ==
    [n \in DOMAIN bs \cup DOMAIN ns |-> IF n \in DOMAIN bs THEN bs[n] ELSE ns[n]]

\* merge_item that binds the name to the fragment's item instead of updating
\* the item the tree has.
merge_item_Replace(existing, item) == item

\* merged["components"][section][name].update(item)
merge_item(existing, item) == dict_update(existing, item)

\* Lines 168-177 on the heap.
merge_components(h, base, new) ==
    IF "components" \notin DOMAIN h[new] THEN h
    ELSE LET bc == h[base]["components"].id
             nc == h[new]["components"].id
             secs == DOMAIN h[bc] \cap DOMAIN h[nc]
             bsec(s) == h[bc][s].id
             nsec(s) == h[nc][s].id
             names(s) == DOMAIN h[bsec(s)] \cap DOMAIN h[nsec(s)]
         IN [o \in DOMAIN h |->
                IF o = bc THEN section_entries(h[bc], h[nc])
                ELSE IF \E s \in secs : bsec(s) = o
                THEN LET s == CHOOSE t \in secs : bsec(t) = o
                     IN section_entries(h[o], h[nsec(s)])
                ELSE IF \E s \in secs : \E n \in names(s) : h[bsec(s)][n].id = o
                THEN LET s == CHOOSE t \in secs : \E n \in names(t) : h[bsec(t)][n].id = o
                         n == CHOOSE m \in names(s) : h[bsec(s)][m].id = o
                     IN merge_item(h[o], h[h[nsec(s)][n].id])
                ELSE h[o]]

\* merge_oas_definitions that also copies the fragment's other top-level
\* keys into the result.
merge_oas_definitions_CopiesTop(h, base, new) ==
    LET h2 == merge_components(merge_paths(h, base, new), base, new)
        top == [k \in DOMAIN h[new] \ {"paths", "components"} |-> h[new][k]]
    IN [h2 EXCEPT ![base] = dict_update(@, top)]

\* merge_oas_definitions(base, new): the heap after the call.  `merged` is a
\* shallow copy of base that replaces it in main (line 215), so the copy
\* takes over base's identifier.
merge_oas_definitions(h, base, new) ==
    merge_components(merge_paths(h, base, new), base, new)

-----------------------------------------------------------------------------
(* Documents the server may hold *)

\* oasDefinition documents of reference pages.
FragA ==
    ("info" :> "A") @@ ("_id" :> "idA") @@ ("x-readme-fauxas" :> "yes")
    @@ ("paths" :> ("/x" :> (("get" :> "old") @@ ("put" :> "keep"))))
    @@ ("components" :> ("schemas" :> ("User" :> (("type" :> "object") @@ ("title" :> "U")))))

FragB ==
    ("info" :> "B") @@ ("servers" :> "srvB")
    @@ ("paths" :> ("/x" :> (("get" :> "new") @@ ("post" :> "made"))))
    @@ ("components" :>
            ("schemas" :> (("User" :> (("type" :> "string") @@ ("format" :> "f")))
                           @@ ("Pet" :> ("type" :> "object")))))

FragC ==
    ("info" :> "C") @@ ("_id" :> "idC") @@ ("x-readme-fauxas" :> "yes")
    @@ ("paths" :> ("/y" :> ("get" :> "why")))
    @@ ("components" :> ("responses" :> ("Err" :> ("description" :> "e"))))

FragD ==
    ("tags" :> "tD")
    @@ ("components" :> ("schemas" :> ("User" :> ("title" :> "V"))))

FragPool == {FragA, FragB, FragC, FragD}

StartTrees == {FragA, FragD}

\* sidebars.docs of the start page: lists of docs, each with pages that carry
\* a slug and the isReference flag.
DocPage(slug, isReference) == [slug |-> slug, isReference |-> isReference]

DocsPool ==
    { <<>>,
      << [pages |-> <<DocPage("s1", TRUE)>>],
         [pages |-> <<DocPage("s1", FALSE), DocPage("s2", TRUE)>>] >>,
      << [pages |-> <<DocPage("s2", FALSE)>>] >> }

\* sidebars.refs of the start page: two groups, each with a page list.
PageSeqs == UNION {[1..n -> {[slug |-> s] : s \in Slugs}] : n \in 0..MaxPages}

RefsPool ==
    { << [pages |-> SubSeq(ps, 1, (Len(ps) + 1) \div 2)],
         [pages |-> SubSeq(ps, (Len(ps) + 1) \div 2 + 1, Len(ps))] >> : ps \in PageSeqs }

SidebarsPool == {[refs |-> r, docs |-> d] : r \in RefsPool, d \in DocsPool}

NoSidebars == [refs |-> <<>>, docs |-> <<>>]

\* An HTTP answer: the status code, whether the body has the id="ssr-props"
\* tag, the data-initial-props=" attribute after it and a closing quote of
\* that attribute, whether the payload is a JSON object, and the mapping that
\* json.loads (closed) or parse_truncated_json (not closed) makes of it.
Response(status, tag, attr, closed, is_dict, data) ==
    [status |-> status, tag |-> tag, attr |-> attr, closed |-> closed,
     is_dict |-> is_dict, data |-> data]

FailedResponses ==
    { Response(404, FALSE, FALSE, FALSE, FALSE, EmptyDict),
      Response(500, FALSE, FALSE, FALSE, FALSE, EmptyDict) }

BrokenResponses ==
    { Response(200, FALSE, FALSE, FALSE, FALSE, EmptyDict),
      Response(200, TRUE, FALSE, FALSE, FALSE, EmptyDict),
      Response(200, TRUE, TRUE, TRUE, FALSE, EmptyDict),
      Response(200, TRUE, TRUE, FALSE, TRUE, "sidebars" :> NoSidebars) }

StartResponses ==
    FailedResponses \cup BrokenResponses
    \cup { Response(200, TRUE, TRUE, TRUE, TRUE, "oasDefinition" :> FragA),
           Response(200, TRUE, TRUE, TRUE, TRUE, "sidebars" :> NoSidebars) }
    \cup { Response(200, TRUE, TRUE, TRUE, TRUE,
                    ("sidebars" :> sb) @@ ("oasDefinition" :> t))
           : sb \in SidebarsPool, t \in StartTrees }

PageResponses ==
    FailedResponses \cup BrokenResponses
    \cup { Response(200, TRUE, TRUE, TRUE, TRUE, "sidebars" :> NoSidebars),
           Response(200, TRUE, TRUE, TRUE, TRUE, "oasDefinition" :> EmptyDict),
           Response(200, TRUE, TRUE, FALSE, TRUE, "oasDefinition" :> FragA) }
    \cup { Response(200, TRUE, TRUE, TRUE, TRUE, "oasDefinition" :> t) : t \in FragPool }

-----------------------------------------------------------------------------
(* fetch_ssr_props *)

Outcome(kind, status, data, nf, cf) ==
    [kind |-> kind, status |-> status, data |-> data, not_found |-> nf, cache_files |-> cf]

\* fetch_ssr_props without the test of lines 97-100.
fetch_ssr_props_NoNegativeCache(url, resp, nf, cf) ==
    IF url \in DOMAIN cf THEN Outcome("data", 0, cf[url], nf, cf)
    ELSE IF resp.status # 200
    THEN Outcome("none", resp.status, EmptyDict,
                 IF resp.status = 404 THEN nf \cup {url} ELSE nf, cf)
    ELSE IF ~resp.tag \/ ~resp.attr THEN Outcome("raise", 200, EmptyDict, nf, cf)
    ELSE IF ~resp.closed /\ "oasDefinition" \notin DOMAIN resp.data
    THEN Outcome("raise", 200, EmptyDict, nf, cf)
    ELSE IF ~resp.is_dict THEN Outcome("raise", 200, EmptyDict, nf, cf)
    ELSE Outcome("data", 200, resp.data, nf, cf @@ (url :> resp.data))

\* fetch_ssr_props(url) when the server would answer resp: what the call
\* returns ("none": None, "data": a dict, "raise": an AssertionError) and the
\* cache it leaves.  status is 0 when no request was made.
fetch_ssr_props(url, resp, nf, cf) ==
    IF url \in nf THEN Outcome("none", 0, EmptyDict, nf, cf)
    ELSE IF url \in DOMAIN cf THEN Outcome("data", 0, cf[url], nf, cf)
    ELSE IF resp.status # 200
    THEN Outcome("none", resp.status, EmptyDict,
                 IF resp.status = 404 THEN nf \cup {url} ELSE nf, cf)
    ELSE IF ~resp.tag \/ ~resp.attr THEN Outcome("raise", 200, EmptyDict, nf, cf)
    ELSE IF ~resp.closed /\ "oasDefinition" \notin DOMAIN resp.data
    THEN Outcome("raise", 200, EmptyDict, nf, cf)
    ELSE IF ~resp.is_dict THEN Outcome("raise", 200, EmptyDict, nf, cf)
    ELSE Outcome("data", 200, resp.data, nf, cf @@ (url :> resp.data))

-----------------------------------------------------------------------------
(* main *)

VARIABLES
    pc,                   \* where main is: "start", "loop", "done", "aborted"
    page_list,            \* the pages the loops of lines 203-204 visit, in order
    idx,                  \* position of the next page in page_list
    non_reference_pages,  \* the set built by lines 189-193
    heap,                 \* the dict objects in memory
    start_props,          \* the start page's oasDefinition object
    oas_definition,       \* the accumulated tree object
    not_found,            \* URLs with an out/cache/not_found_* file
    cache_files,          \* URLs with an out/cache/ssr_props_*.json file, and its content
    fetched,              \* URLs passed to fetch_ssr_props so far
    last,                 \* what the latest step of main did
    written,              \* out/oas_definition.json exists
    out_file,             \* its content
    nfrag,                \* number of fragments loaded so far
    created,              \* per fragment, the document it was loaded from
    merged_frags          \* the fragments passed as `new` to the merger, in order

crawlVars == <<pc, page_list, idx, non_reference_pages, heap, start_props, oas_definition,
               not_found, cache_files, fetched, last, written, out_file, nfrag, created,
               merged_frags>>

\* The locals of one call of parse_truncated_json
VARIABLES
    ppc,            \* where the call is: "idle", "enter", "scan", "parse", "done"
    doc,            \* the entries of the document json_str was cut from
    json_str,       \* the argument, a list of characters
    content,        \* line 17-21
    pos,            \* index in content of the character the loop of line 39 reads next
    brace_count,
    bracket_count,
    in_string,
    escape_next,
    current_pair,
    pairs,
    npair,          \* index in pairs of the pair the loop of line 82 reads next
    result

parseVars == <<ppc, doc, json_str, content, pos, brace_count, bracket_count, in_string,
               escape_next, current_pair, pairs, npair, result>>

vars == <<crawlVars, parseVars>>

\* No call of parse_truncated_json is under way.
ParseIdle ==
    /\ ppc = "idle"
    /\ doc = <<>>
    /\ json_str = <<>>
    /\ content = <<>>
    /\ pos = 1
    /\ brace_count = 0
    /\ bracket_count = 0
    /\ in_string = FALSE
    /\ escape_next = FALSE
    /\ current_pair = <<>>
    /\ pairs = <<>>
    /\ npair = 1
    /\ result = EmptyDict

\* sys.argv[1], as a list of URL segments
start_url == <<"http://site">>

\* Lines 195-197
url_prefix == IF start_url[Len(start_url)] = "/" THEN start_url ELSE start_url \o <<"/">>

PageUrl(slug) == url_prefix \o <<slug>>

ResultTop == Oid(0, <<>>)

Event(kind, slug, status) == [kind |-> kind, slug |-> slug, status |-> status]

\* NonReference with the `not` of line 192 left out.
NonReference_FlagInverted(docs) ==
    {docs[i].pages[j].slug : <<i, j>> \in
        {ij \in (DOMAIN docs) \X (1..MaxPages) :
            /\ ij[2] \in DOMAIN docs[ij[1]].pages
            /\ docs[ij[1]].pages[ij[2]].isReference}}

\* Lines 189-193
NonReference(docs) ==
    {docs[i].pages[j].slug : <<i, j>> \in
        {ij \in (DOMAIN docs) \X (1..MaxPages) :
            /\ ij[2] \in DOMAIN docs[ij[1]].pages
            /\ ~docs[ij[1]].pages[ij[2]].isReference}}

\* PageList that visits the groups from the last to the first.
RECURSIVE PageList_GroupsReversed(_)
PageList_GroupsReversed(refs) ==
    IF refs = <<>> THEN <<>>
    ELSE PageList_GroupsReversed(Tail(refs)) \o Head(refs).pages

\* The order in which `for ref in refs: for page in ref["pages"]` visits pages
RECURSIVE PageList(_)
PageList(refs) ==
    IF refs = <<>> THEN <<>> ELSE Head(refs).pages \o PageList(Tail(refs))

\* Seed that empties paths and components first and copies the start
\* fragment's keys over them afterwards.
Seed_KeepSections(h) ==
    (ResultTop :> dict_update(("paths" :> Ref(Oid(0, <<"paths">>)))
                              @@ ("components" :> Ref(Oid(0, <<"components">>))),
                              h[Oid(1, <<>>)]))
    @@ (Oid(0, <<"paths">>) :> EmptyDict)
    @@ (Oid(0, <<"components">>) :> EmptyDict)
    @@ h

\* Seed without line 200: paths stays what the start fragment has.
Seed_NoPaths(h) ==
    (ResultTop :> dict_update(h[Oid(1, <<>>)],
                              ("components" :> Ref(Oid(0, <<"components">>)))))
    @@ (Oid(0, <<"components">>) :> EmptyDict)
    @@ h

\* Lines 199-201: a shallow copy of the start fragment with fresh, empty
\* paths and components.
Seed(h) ==
    (ResultTop :> dict_update(h[Oid(1, <<>>)],
                              ("paths" :> Ref(Oid(0, <<"paths">>)))
                              @@ ("components" :> Ref(Oid(0, <<"components">>)))))
    @@ (Oid(0, <<"paths">>) :> EmptyDict)
    @@ (Oid(0, <<"components">>) :> EmptyDict)
    @@ h

CrawlInit ==
    /\ pc = "start"
    /\ page_list = <<>>
    /\ idx = 1
    /\ non_reference_pages = {}
    /\ heap = EmptyDict
    /\ start_props = NullOid
    /\ oas_definition = NullOid
    /\ not_found \in {{}, {PageUrl("s2")}}
    /\ cache_files = EmptyDict
    /\ fetched = {}
    /\ last = Event("init", "", 0)
    /\ written = FALSE
    /\ out_file = EmptyDict
    /\ nfrag = 0
    /\ created = <<>>
    /\ merged_frags = <<>>

\* Lines 185-201 when they run to the end.
StartPage ==
    /\ UNCHANGED parseVars
    /\ pc = "start"
    /\ \E resp \in StartResponses :
        LET r == fetch_ssr_props(start_url, resp, not_found, cache_files)
            sidebars == r.data["sidebars"]
            tree == r.data["oasDefinition"]
        IN /\ r.kind = "data"
           /\ {"sidebars", "oasDefinition"} \subseteq DOMAIN r.data
           /\ page_list' = PageList(sidebars.refs)
           /\ non_reference_pages' = NonReference(sidebars.docs)
           /\ heap' = Seed(json_load(tree, 1))
           /\ created' = <<tree>>
           /\ not_found' = r.not_found
           /\ cache_files' = r.cache_files
           /\ last' = Event("start", "", r.status)
    /\ pc' = "loop"
    /\ nfrag' = 1
    /\ start_props' = Oid(1, <<>>)
    /\ oas_definition' = ResultTop
    /\ fetched' = fetched \cup {start_url}
    /\ UNCHANGED <<idx, written, out_file, merged_frags>>

\* StartFails in a main that catches the failure and goes on with an empty
\* tree and no pages.
StartFails_Continues ==
    /\ UNCHANGED parseVars
    /\ pc = "start"
    /\ \E resp \in StartResponses :
        LET r == fetch_ssr_props(start_url, resp, not_found, cache_files)
        IN /\ \/ r.kind # "data"
              \/ ~({"sidebars", "oasDefinition"} \subseteq DOMAIN r.data)
           /\ not_found' = r.not_found
           /\ cache_files' = r.cache_files
           /\ last' = Event(IF r.kind = "data" THEN "raise" ELSE r.kind, "", r.status)
    /\ pc' = "loop"
    /\ heap' = Seed(json_load(EmptyDict, 1))
    /\ created' = <<EmptyDict>>
    /\ nfrag' = 1
    /\ start_props' = Oid(1, <<>>)
    /\ oas_definition' = ResultTop
    /\ fetched' = fetched \cup {start_url}
    /\ UNCHANGED <<page_list, idx, non_reference_pages, written, out_file, merged_frags>>

\* Lines 185-201 when they raise: an assertion of fetch_ssr_props fails, or it
\* returns None or a dict without "sidebars" or "oasDefinition" and the
\* subscript of line 187 or 199 raises.
StartFails ==
    /\ UNCHANGED parseVars
    /\ pc = "start"
    /\ \E resp \in StartResponses :
        LET r == fetch_ssr_props(start_url, resp, not_found, cache_files)
        IN /\ \/ r.kind # "data"
              \/ ~({"sidebars", "oasDefinition"} \subseteq DOMAIN r.data)
           /\ not_found' = r.not_found
           /\ cache_files' = r.cache_files
           /\ last' = Event(IF r.kind = "data" THEN "raise" ELSE r.kind, "", r.status)
    /\ pc' = "aborted"
    /\ fetched' = fetched \cup {start_url}
    /\ UNCHANGED <<page_list, idx, non_reference_pages, heap, start_props, oas_definition,
                   written, out_file, nfrag, created, merged_frags>>

\* Lines 205-207
SkipNonReference ==
    /\ UNCHANGED parseVars
    /\ pc = "loop"
    /\ idx <= Len(page_list)
    /\ page_list[idx].slug \in non_reference_pages
    /\ idx' = idx + 1
    /\ last' = Event("non_reference", page_list[idx].slug, 0)
    /\ UNCHANGED <<pc, page_list, non_reference_pages, heap, start_props, oas_definition,
                   not_found, cache_files, fetched, written, out_file, nfrag, created,
                   merged_frags>>

\* Lines 209-210 when an assertion of fetch_ssr_props fails: nothing in main
\* catches it.
PageRaises ==
    /\ UNCHANGED parseVars
    /\ pc = "loop"
    /\ idx <= Len(page_list)
    /\ page_list[idx].slug \notin non_reference_pages
    /\ \E resp \in PageResponses :
        LET r == fetch_ssr_props(PageUrl(page_list[idx].slug), resp, not_found, cache_files)
        IN /\ r.kind = "raise"
           /\ not_found' = r.not_found
           /\ cache_files' = r.cache_files
           /\ last' = Event("raise", page_list[idx].slug, r.status)
    /\ pc' = "aborted"
    /\ fetched' = fetched \cup {PageUrl(page_list[idx].slug)}
    /\ UNCHANGED <<page_list, idx, non_reference_pages, heap, start_props, oas_definition,
                   written, out_file, nfrag, created, merged_frags>>

\* PageSkipped without the test of line 211: the subscript of line 213 raises
\* on None.
PageSkipped_NoneUnchecked ==
    /\ UNCHANGED parseVars
    /\ pc = "loop"
    /\ idx <= Len(page_list)
    /\ page_list[idx].slug \notin non_reference_pages
    /\ \E resp \in PageResponses :
        LET r == fetch_ssr_props(PageUrl(page_list[idx].slug), resp, not_found, cache_files)
        IN /\ \/ r.kind = "none"
              \/ /\ r.kind = "data"
                 /\ IF "oasDefinition" \in DOMAIN r.data
                    THEN DOMAIN r.data["oasDefinition"] = {}
                    ELSE TRUE
           /\ not_found' = r.not_found
           /\ cache_files' = r.cache_files
           /\ last' = Event(IF r.kind = "none" THEN "none" ELSE "no_oas",
                            page_list[idx].slug, r.status)
           /\ pc' = IF r.kind = "none" THEN "aborted" ELSE pc
           /\ idx' = IF r.kind = "none" THEN idx ELSE idx + 1
    /\ fetched' = fetched \cup {PageUrl(page_list[idx].slug)}
    /\ UNCHANGED <<page_list, non_reference_pages, heap, start_props, oas_definition,
                   written, out_file, nfrag, created, merged_frags>>

\* PageSkipped without the `"oasDefinition" not in props` test of line 213:
\* the subscript raises a KeyError when the key is missing.
PageSkipped_NoOasUnchecked ==
    /\ UNCHANGED parseVars
    /\ pc = "loop"
    /\ idx <= Len(page_list)
    /\ page_list[idx].slug \notin non_reference_pages
    /\ \E resp \in PageResponses :
        LET r == fetch_ssr_props(PageUrl(page_list[idx].slug), resp, not_found, cache_files)
            missing == r.kind = "data" /\ "oasDefinition" \notin DOMAIN r.data
        IN /\ \/ r.kind = "none"
              \/ /\ r.kind = "data"
                 /\ IF "oasDefinition" \in DOMAIN r.data
                    THEN DOMAIN r.data["oasDefinition"] = {}
                    ELSE TRUE
           /\ not_found' = r.not_found
           /\ cache_files' = r.cache_files
           /\ last' = Event(IF r.kind = "none" THEN "none" ELSE "no_oas",
                            page_list[idx].slug, r.status)
           /\ pc' = IF missing THEN "aborted" ELSE pc
           /\ idx' = IF missing THEN idx ELSE idx + 1
    /\ fetched' = fetched \cup {PageUrl(page_list[idx].slug)}
    /\ UNCHANGED <<page_list, non_reference_pages, heap, start_props, oas_definition,
                   written, out_file, nfrag, created, merged_frags>>

\* Lines 209-214: the page is fetched and skipped, because fetch_ssr_props
\* returned None or a dict with no (or an empty) oasDefinition.
PageSkipped ==
    /\ UNCHANGED parseVars
    /\ pc = "loop"
    /\ idx <= Len(page_list)
    /\ page_list[idx].slug \notin non_reference_pages
    /\ \E resp \in PageResponses :
        LET r == fetch_ssr_props(PageUrl(page_list[idx].slug), resp, not_found, cache_files)
        IN /\ \/ r.kind = "none"
              \/ /\ r.kind = "data"
                 /\ IF "oasDefinition" \in DOMAIN r.data
                    THEN DOMAIN r.data["oasDefinition"] = {}
                    ELSE TRUE
           /\ not_found' = r.not_found
           /\ cache_files' = r.cache_files
           /\ last' = Event(IF r.kind = "none" THEN "none" ELSE "no_oas",
                            page_list[idx].slug, r.status)
    /\ idx' = idx + 1
    /\ fetched' = fetched \cup {PageUrl(page_list[idx].slug)}
    /\ UNCHANGED <<pc, page_list, non_reference_pages, heap, start_props, oas_definition,
                   written, out_file, nfrag, created, merged_frags>>

\* Lines 209-217: the page is fetched and its oasDefinition merged.
PageMerged ==
    /\ UNCHANGED parseVars
    /\ pc = "loop"
    /\ idx <= Len(page_list)
    /\ page_list[idx].slug \notin non_reference_pages
    /\ \E resp \in PageResponses :
        LET r == fetch_ssr_props(PageUrl(page_list[idx].slug), resp, not_found, cache_files)
            tree == r.data["oasDefinition"]
            f == nfrag + 1
        IN /\ r.kind = "data"
           /\ "oasDefinition" \in DOMAIN r.data
           /\ DOMAIN tree # {}
           /\ heap' = merge_oas_definitions(json_load(tree, f) @@ heap,
                                            oas_definition, Oid(f, <<>>))
           /\ created' = Append(created, tree)
           /\ not_found' = r.not_found
           /\ cache_files' = r.cache_files
           /\ last' = Event("merged", page_list[idx].slug, r.status)
    /\ idx' = idx + 1
    /\ nfrag' = nfrag + 1
    /\ merged_frags' = Append(merged_frags, nfrag + 1)
    /\ fetched' = fetched \cup {PageUrl(page_list[idx].slug)}
    /\ UNCHANGED <<pc, page_list, non_reference_pages, start_props, oas_definition,
                   written, out_file>>

\* Lines 219-224
Finish ==
    /\ UNCHANGED parseVars
    /\ pc = "loop"
    /\ idx > Len(page_list)
    /\ heap' = [heap EXCEPT ![oas_definition] = dict_del(@, {"x-readme-fauxas", "_id"})]
    /\ out_file' = TreeVal(heap', oas_definition)
    /\ written' = TRUE
    /\ pc' = "done"
    /\ last' = Event("finish", "", 0)
    /\ UNCHANGED <<page_list, idx, non_reference_pages, start_props, oas_definition,
                   not_found, cache_files, fetched, nfrag, created, merged_frags>>

Init == CrawlInit /\ ParseIdle

Next ==
    \/ StartPage
    \/ StartFails
    \/ SkipNonReference
    \/ PageRaises
    \/ PageSkipped
    \/ PageMerged
    \/ Finish

Spec == Init /\ [][Next]_vars

\* The accumulated tree as a JSON value
Tree == TreeVal(heap, oas_definition)

\* The present JSON value of fragment f
FragVal(f) == TreeVal(heap, Oid(f, <<>>))

-----------------------------------------------------------------------------
(* JSON texts.  A text is a list of one-character strings. *)

\* The most top-level entries a document has.
MaxEntries == 2

Q == "\""
BS == "\\"

Digits == {"1", "2"}
HexChars == {"1", "2", "a", "b", "c", "e"}
SimpleEscapes == {Q, BS, "b", "r", "t"}

\* Values of top-level entries, as written in the document:
\*    12 (after a space)   "},"   "\","   [1,"]"]   {"k":[1,2]}   true
ValuePool ==
    { <<" ", "1", "2">>,
      <<Q, "}", ",", Q>>,
      <<Q, BS, Q, ",", Q>>,
      <<"[", "1", ",", Q, "]", Q, "]">>,
      <<"{", Q, "k", Q, ":", "[", "1", ",", "2", "]", "}">>,
      <<"t", "r", "u", "e">> }

KeyName(i) == <<"a", "b", "c", "x", "y">>[i]

RECURSIVE LStrip(_)
LStrip(s) == IF s # <<>> /\ Head(s) = " " THEN LStrip(Tail(s)) ELSE s

RECURSIVE RStrip(_)
RStrip(s) ==
    IF s # <<>> /\ s[Len(s)] = " " THEN RStrip(SubSeq(s, 1, Len(s) - 1)) ELSE s

\* str.strip()
Strip(s) == RStrip(LStrip(s))

EntryText(i, v) == <<Q, KeyName(i), Q, ":">> \o v

\* The text of entries 1..n of the document with values vs, separated by commas
RECURSIVE EntriesText(_, _)
EntriesText(vs, n) ==
    IF n = 0 THEN <<>>
    ELSE IF n = 1 THEN EntryText(1, vs[1])
    ELSE EntriesText(vs, n - 1) \o <<",">> \o EntryText(n, vs[n])

DocText(vs) == <<"{">> \o EntriesText(vs, Len(vs)) \o <<"}">>

\* What is known of the document with values vs: per entry its key, its
\* value and the index in DocText(vs) of its last character.
DocEntries(vs) ==
    [i \in 1..Len(vs) |->
        [key |-> <<KeyName(i)>>, val |-> Strip(vs[i]), text |-> EntryText(i, vs[i]),
         end |-> 1 + Len(EntriesText(vs, i))]]

ValueSeqs == UNION {[1..n -> ValuePool] : n \in 0..MaxEntries}

-----------------------------------------------------------------------------
(* json.loads, for the characters above *)

RECURSIVE SkipWs(_, _)
SkipWs(s, i) == IF i <= Len(s) /\ s[i] = " " THEN SkipWs(s, i + 1) ELSE i

\* The index after the closing quote of a string whose characters start at
\* j; 0 if the string is not closed or has a bad escape.
RECURSIVE StringEnd(_, _)
StringEnd(s, j) ==
    IF j > Len(s) THEN 0
    ELSE IF s[j] = Q THEN j + 1
    ELSE IF s[j] = BS
    THEN IF j + 1 > Len(s) THEN 0
         ELSE IF s[j + 1] \in SimpleEscapes THEN StringEnd(s, j + 2)
         ELSE IF s[j + 1] = "u" /\ j + 5 <= Len(s) /\ \A d \in 2..5 : s[j + d] \in HexChars
         THEN StringEnd(s, j + 6)
         ELSE 0
    ELSE StringEnd(s, j + 1)

RECURSIVE DigitsEnd(_, _)
DigitsEnd(s, j) == IF j <= Len(s) /\ s[j] \in Digits THEN DigitsEnd(s, j + 1) ELSE j

\* The index after the number that starts at j: digits and an optional exponent
NumberEnd(s, j) ==
    LET d == DigitsEnd(s, j)
    IN IF d + 1 <= Len(s) /\ s[d] = "e" /\ s[d + 1] \in Digits
       THEN DigitsEnd(s, d + 1)
       ELSE d

\* The index after the value that starts at or after i0; 0 if there is none.
RECURSIVE ValueEnd(_, _)
RECURSIVE ArrayRest(_, _)
RECURSIVE ObjectRest(_, _)
ValueEnd(s, i0) ==
    LET i == SkipWs(s, i0)
    IN IF i > Len(s) THEN 0
       ELSE IF s[i] = Q THEN StringEnd(s, i + 1)
       ELSE IF s[i] \in Digits THEN NumberEnd(s, i)
       ELSE IF s[i] = "t"
       THEN IF i + 3 <= Len(s) /\ SubSeq(s, i, i + 3) = <<"t", "r", "u", "e">>
            THEN i + 4 ELSE 0
       ELSE IF s[i] = "["
       THEN LET j == SkipWs(s, i + 1)
            IN IF j <= Len(s) /\ s[j] = "]" THEN j + 1 ELSE ArrayRest(s, j)
       ELSE IF s[i] = "{"
       THEN LET j == SkipWs(s, i + 1)
            IN IF j <= Len(s) /\ s[j] = "}" THEN j + 1 ELSE ObjectRest(s, j)
       ELSE 0

ArrayRest(s, i) ==
    LET e == ValueEnd(s, i)
        j == SkipWs(s, e)
    IN IF e = 0 THEN 0
       ELSE IF j > Len(s) THEN 0
       ELSE IF s[j] = "]" THEN j + 1
       ELSE IF s[j] = "," THEN ArrayRest(s, j + 1)
       ELSE 0

ObjectRest(s, i0) ==
    LET i == SkipWs(s, i0)
        k == StringEnd(s, i + 1)
        c == SkipWs(s, k)
        e == ValueEnd(s, c + 1)
        j == SkipWs(s, e)
    IN IF i > Len(s) THEN 0
       ELSE IF s[i] # Q THEN 0
       ELSE IF k = 0 THEN 0
       ELSE IF c > Len(s) THEN 0
       ELSE IF s[c] # ":" THEN 0
       ELSE IF e = 0 THEN 0
       ELSE IF j > Len(s) THEN 0
       ELSE IF s[j] = "}" THEN j + 1
       ELSE IF s[j] = "," THEN ObjectRest(s, j + 1)
       ELSE 0

\* The members of the object whose first member starts at or after i0, added
\* to acc (a later member replaces an earlier one with its key).  A key is
\* kept as the characters between its quotes, a value as its text.
RECURSIVE Members(_, _, _)
Members(s, i0, acc) ==
    LET i == SkipWs(s, i0)
        k == StringEnd(s, i + 1)
        c == SkipWs(s, k)
        v == SkipWs(s, c + 1)
        e == ValueEnd(s, c + 1)
        j == SkipWs(s, e)
    IN IF s[j] = "}"
       THEN dict_update(acc, SubSeq(s, i + 1, k - 2) :> SubSeq(s, v, e - 1))
       ELSE Members(s, j + 1,
                    dict_update(acc, SubSeq(s, i + 1, k - 2) :> SubSeq(s, v, e - 1)))

\* json.loads(s) for a text s that starts with "{": ok is FALSE when it
\* raises JSONDecodeError.
json_loads(s) ==
    LET j == SkipWs(s, 2)
        e == IF j <= Len(s) /\ s[j] = "}" THEN j + 1 ELSE ObjectRest(s, j)
    IN IF e = 0 \/ SkipWs(s, e) # Len(s) + 1
       THEN [ok |-> FALSE, dict |-> EmptyDict]
       ELSE [ok |-> TRUE,
             dict |-> IF s[j] = "}" THEN EmptyDict ELSE Members(s, j, EmptyDict)]

-----------------------------------------------------------------------------
(* parse_truncated_json *)

\* Lines 17-21
Content(str) ==
    LET c1 == Strip(str)
        c2 == IF c1 # <<>> /\ Head(c1) = "{" THEN Tail(c1) ELSE c1
    IN IF c2 # <<>> /\ c2[Len(c2)] = "}" THEN SubSeq(c2, 1, Len(c2) - 1) ELSE c2

Contains(s, ch) == \E i \in DOMAIN s : s[i] = ch

\* IsBoundary without the bracket depth.
IsBoundary_NoBracket(char, string, braces, brackets) ==
    ~string /\ char = "," /\ braces = 0

\* Line 62, under the test of line 53: the character ends an entry.
IsBoundary(char, string, braces, brackets) ==
    ~string /\ char = "," /\ braces = 0 /\ brackets = 0

\* The argument is a prefix of a well-formed document, which may be whole and
\* then may have a trailing space.
ParseInit ==
    /\ ppc = "enter"
    /\ \E vs \in ValueSeqs :
          /\ doc = DocEntries(vs)
          /\ \/ \E n \in 0..Len(DocText(vs)) : json_str = SubSeq(DocText(vs), 1, n)
             \/ json_str = DocText(vs) \o <<" ">>
    /\ content = <<>>
    /\ pos = 1
    /\ brace_count = 0
    /\ bracket_count = 0
    /\ in_string = FALSE
    /\ escape_next = FALSE
    /\ current_pair = <<>>
    /\ pairs = <<>>
    /\ npair = 1
    /\ result = EmptyDict

CrawlIdle ==
    /\ pc = "idle"
    /\ page_list = <<>>
    /\ idx = 1
    /\ non_reference_pages = {}
    /\ heap = EmptyDict
    /\ start_props = NullOid
    /\ oas_definition = NullOid
    /\ not_found = {}
    /\ cache_files = EmptyDict
    /\ fetched = {}
    /\ last = Event("init", "", 0)
    /\ written = FALSE
    /\ out_file = EmptyDict
    /\ nfrag = 0
    /\ created = <<>>
    /\ merged_frags = <<>>

\* Lines 17-37
Enter ==
    /\ ppc = "enter"
    /\ content' = Content(json_str)
    /\ ppc' = "scan"
    /\ UNCHANGED <<doc, json_str, pos, brace_count, bracket_count, in_string, escape_next,
                   current_pair, pairs, npair, result>>
    /\ UNCHANGED crawlVars

\* One iteration of the loop of lines 39-70
ScanChar ==
    /\ ppc = "scan"
    /\ pos <= Len(content)
    /\ pos' = pos + 1
    /\ LET char == content[pos]
           string == IF char = Q THEN ~in_string ELSE in_string
       IN IF escape_next
          THEN /\ escape_next' = FALSE
               /\ current_pair' = Append(current_pair, char)
               /\ UNCHANGED <<brace_count, bracket_count, in_string, pairs>>
          ELSE IF char = BS /\ in_string
          THEN /\ escape_next' = TRUE
               /\ current_pair' = Append(current_pair, char)
               /\ UNCHANGED <<brace_count, bracket_count, in_string, pairs>>
          ELSE /\ in_string' = string
               /\ brace_count' = IF string THEN brace_count
                                 ELSE IF char = "{" THEN brace_count + 1
                                 ELSE IF char = "}" THEN brace_count - 1
                                 ELSE brace_count
               /\ bracket_count' = IF string THEN bracket_count
                                   ELSE IF char = "[" THEN bracket_count + 1
                                   ELSE IF char = "]" THEN bracket_count - 1
                                   ELSE bracket_count
               /\ IF IsBoundary(char, string, brace_count, bracket_count)
                  THEN /\ pairs' = IF Contains(Strip(current_pair), ":")
                                   THEN Append(pairs, Strip(current_pair))
                                   ELSE pairs
                       /\ current_pair' = <<>>
                  ELSE /\ current_pair' = Append(current_pair, char)
                       /\ pairs' = pairs
               /\ UNCHANGED escape_next
    /\ UNCHANGED <<ppc, doc, json_str, content, npair, result>>
    /\ UNCHANGED crawlVars

\* Lines 72-79
AddLast ==
    /\ ppc = "scan"
    /\ pos > Len(content)
    /\ pairs' = IF /\ Strip(current_pair) # <<>>
                   /\ Contains(current_pair, ":")
                   /\ brace_count = 0
                   /\ bracket_count = 0
                THEN Append(pairs, Strip(current_pair))
                ELSE pairs
    /\ ppc' = "parse"
    /\ UNCHANGED <<doc, json_str, content, pos, brace_count, bracket_count, in_string,
                   escape_next, current_pair, npair, result>>
    /\ UNCHANGED crawlVars

\* One iteration of the loop of lines 82-90
ParsePair ==
    /\ ppc = "parse"
    /\ npair <= Len(pairs)
    /\ LET parsed == json_loads(<<"{">> \o pairs[npair] \o <<"}">>)
       IN result' = IF parsed.ok THEN dict_update(result, parsed.dict) ELSE result
    /\ npair' = npair + 1
    /\ UNCHANGED <<ppc, doc, json_str, content, pos, brace_count, bracket_count, in_string,
                   escape_next, current_pair, pairs>>
    /\ UNCHANGED crawlVars

\* Line 92
Return ==
    /\ ppc = "parse"
    /\ npair > Len(pairs)
    /\ ppc' = "done"
    /\ UNCHANGED <<doc, json_str, content, pos, brace_count, bracket_count, in_string,
                   escape_next, current_pair, pairs, npair, result>>
    /\ UNCHANGED crawlVars

InitParse == CrawlIdle /\ ParseInit

NextParse ==
    \/ Enter
    \/ ScanChar
    \/ AddLast
    \/ ParsePair
    \/ Return

SpecParse == InitParse /\ [][NextParse]_vars

-----------------------------------------------------------------------------
(* Properties of the crawl *)

Seeded == pc \in {"loop", "done"}

PathsOf(t) == IF "paths" \in DOMAIN t THEN t["paths"] ELSE EmptyDict

ComponentsOf(t) == IF "components" \in DOMAIN t THEN t["components"] ELSE EmptyDict

MergedSet == {merged_frags[i] : i \in DOMAIN merged_frags}

\* The step is one iteration of the page loop that fetched a page.
IsPageStep == pc = "loop" /\ last'.slug # "" /\ (idx' # idx \/ pc' # pc)

\* C1: when a reference page answers 200 but extraction fails (marker or
\* attribute missing, or the recovered mapping lacks oasDefinition), the page
\* is skipped and the crawl goes on: the run is not aborted.
C1_ExtractionFailureSkips ==
    (last.kind = "raise" /\ last.slug # "") => pc # "aborted"

\* C2: a reference page whose fetch answers 404 or another non-200 status is
\* skipped: the accumulated tree is unchanged, the run stays in the page loop
\* and moves on to the next page of the same list; a run that finishes has
\* gone through the whole list.
C2_NonOkPageSkipped ==
    /\ [][(IsPageStep /\ last'.kind = "none" /\ last'.status \in {404, 500})
           => /\ Tree' = Tree
              /\ pc' = "loop"
              /\ idx' = idx + 1
              /\ page_list' = page_list
              /\ ~written']_vars
    /\ [](pc = "done" => idx = Len(page_list) + 1)

C2_Witness ==
    /\ pc = "loop"
    /\ last.kind = "none"
    /\ last.status \in {404, 500}
    /\ merged_frags # <<>>
    /\ idx <= Len(page_list)
    /\ page_list[idx].slug \notin non_reference_pages

\* C3: a slug marked isReference = false anywhere in the start page's
\* sidebars.docs is never passed to fetch_ssr_props, also when a reference
\* group lists it.
C3_NonReferenceNeverFetched ==
    Seeded =>
        LET docs == cache_files[start_url]["sidebars"].docs
        IN \A i \in DOMAIN docs : \A j \in DOMAIN docs[i].pages :
              ~docs[i].pages[j].isReference => PageUrl(docs[i].pages[j].slug) \notin fetched

C3_Witness ==
    /\ pc = "done"
    /\ \E i \in DOMAIN page_list : page_list[i].slug \in non_reference_pages
    /\ \E i \in DOMAIN page_list : PageUrl(page_list[i].slug) \in fetched
    /\ merged_frags # <<>>

\* C4: no merge mutates a fragment: every fragment that was passed as `new`
\* to a merge call still has the content it was created with.
C4_FragmentsNeverMutated ==
    Seeded => \A f \in MergedSet : FragVal(f) = created[f]

\* C5 as stated: every path and every component category of the start
\* fragment is in the final tree.
C5_StartFragmentReplayed ==
    pc = "done" =>
        /\ DOMAIN PathsOf(created[1]) \subseteq DOMAIN out_file["paths"]
        /\ DOMAIN ComponentsOf(created[1]) \subseteq DOMAIN out_file["components"]

\* C5 amended: the tree is seeded with the start fragment's other top-level
\* keys and with empty paths and components, and the start fragment's own
\* paths and components are not merged back: the paths and the component
\* categories of the tree are exactly those of the merged page fragments.
C5_SeedResetsSections ==
    Seeded =>
        /\ DOMAIN Tree["paths"] = UNION {DOMAIN PathsOf(created[f]) : f \in MergedSet}
        /\ DOMAIN Tree["components"] = UNION {DOMAIN ComponentsOf(created[f]) : f \in MergedSet}
        /\ \A k \in DOMAIN created[1] \ {"paths", "components", "x-readme-fauxas", "_id"} :
              k \in DOMAIN Tree /\ Tree[k] = created[1][k]

C5_Witness ==
    /\ pc = "done"
    /\ merged_frags # <<>>
    /\ DOMAIN PathsOf(created[1]) # {}
    /\ ~(DOMAIN PathsOf(created[1]) \subseteq DOMAIN out_file["paths"])

\* C8: last write wins per method: when a fragment is merged, under every
\* path the tree already has, a method the fragment defines gets the
\* fragment's operation, a method only the tree has keeps its operation, and
\* there are no other methods.
C8_LastWriteWinsPerMethod ==
    [][(IsPageStep /\ last'.kind = "merged")
        => LET b == PathsOf(created'[nfrag'])
           IN \A p \in DOMAIN b \cap DOMAIN Tree["paths"] :
                 LET old == Tree["paths"][p]
                     new == Tree'["paths"][p]
                 IN /\ DOMAIN new = DOMAIN old \cup DOMAIN b[p]
                    /\ \A m \in DOMAIN b[p] : new[m] = b[p][m]
                    /\ \A m \in DOMAIN old \ DOMAIN b[p] : new[m] = old[m]]_vars

C8_Witness ==
    /\ Len(merged_frags) = 2
    /\ created[merged_frags[1]] = FragA
    /\ created[merged_frags[2]] = FragB
    /\ Tree["paths"]["/x"] = ("get" :> "new") @@ ("put" :> "keep") @@ ("post" :> "made")

\* C9: merging a fragment again right after it was merged leaves the tree as
\* it was after the first merge.
C9_MergeIdempotent ==
    [][(/\ IsPageStep
        /\ last'.kind = "merged"
        /\ merged_frags # <<>>
        /\ created'[nfrag'] = created[merged_frags[Len(merged_frags)]])
        => Tree' = Tree]_vars

C9_Witness ==
    /\ Len(merged_frags) >= 2
    /\ created[merged_frags[Len(merged_frags)]] = created[merged_frags[Len(merged_frags) - 1]]
    /\ DOMAIN Tree["paths"] # {}
    /\ DOMAIN Tree["components"] # {}

\* C10: two fragments with disjoint path sets, merged into the empty seeded
\* tree, give a paths section that is the disjoint union of their paths, each
\* path with the method map of its fragment.
C10_DisjointUnion ==
    (Seeded /\ Len(merged_frags) = 2) =>
        LET a == PathsOf(created[merged_frags[1]])
            b == PathsOf(created[merged_frags[2]])
        IN DOMAIN a \cap DOMAIN b = {} =>
              /\ DOMAIN Tree["paths"] = DOMAIN a \cup DOMAIN b
              /\ \A p \in DOMAIN a : Tree["paths"][p] = a[p]
              /\ \A p \in DOMAIN b : Tree["paths"][p] = b[p]

C10_Witness ==
    /\ Seeded
    /\ Len(merged_frags) = 2
    /\ DOMAIN PathsOf(created[merged_frags[1]]) # {}
    /\ DOMAIN PathsOf(created[merged_frags[2]]) # {}
    /\ DOMAIN PathsOf(created[merged_frags[1]]) \cap DOMAIN PathsOf(created[merged_frags[2]]) = {}
    /\ Cardinality(DOMAIN Tree["paths"]) = 2

\* The document of the fragment merged by this step
MergedNow == created'[nfrag']

\* C11: when a fragment is merged, a category of its components that the
\* tree lacks is inserted whole; in a category the tree has, a named
\* component the tree lacks is inserted, and one it has is updated field by
\* field: the fragment's fields win, its new fields are added and the tree's
\* other fields stay.  Categories and names the fragment does not mention
\* are untouched.
C11_ComponentsMergeRule ==
    [][(IsPageStep /\ last'.kind = "merged")
        => LET b == ComponentsOf(MergedNow)
               old == Tree["components"]
               new == Tree'["components"]
           IN /\ DOMAIN new = DOMAIN old \cup DOMAIN b
              /\ \A s \in DOMAIN old \ DOMAIN b : new[s] = old[s]
              /\ \A s \in DOMAIN b \ DOMAIN old : new[s] = b[s]
              /\ \A s \in DOMAIN b \cap DOMAIN old :
                    /\ DOMAIN new[s] = DOMAIN old[s] \cup DOMAIN b[s]
                    /\ \A n \in DOMAIN old[s] \ DOMAIN b[s] : new[s][n] = old[s][n]
                    /\ \A n \in DOMAIN b[s] \ DOMAIN old[s] : new[s][n] = b[s][n]
                    /\ \A n \in DOMAIN b[s] \cap DOMAIN old[s] :
                          /\ DOMAIN new[s][n] = DOMAIN old[s][n] \cup DOMAIN b[s][n]
                          /\ \A x \in DOMAIN b[s][n] : new[s][n][x] = b[s][n][x]
                          /\ \A x \in DOMAIN old[s][n] \ DOMAIN b[s][n] :
                                new[s][n][x] = old[s][n][x]]_vars

C11_Witness ==
    /\ Len(merged_frags) = 2
    /\ created[merged_frags[1]] = FragA
    /\ created[merged_frags[2]] = FragB
    /\ Tree["components"] =
          ("schemas" :> (("User" :> (("type" :> "string") @@ ("title" :> "U")
                                     @@ ("format" :> "f")))
                         @@ ("Pet" :> ("type" :> "object"))))

\* The merged fragments that give method m of path p, field x of component
\* n of category s
GivesMethod(f, p, m) ==
    p \in DOMAIN PathsOf(created[f]) /\ m \in DOMAIN PathsOf(created[f])[p]

GivesField(f, s, n, x) ==
    /\ s \in DOMAIN ComponentsOf(created[f])
    /\ n \in DOMAIN ComponentsOf(created[f])[s]
    /\ x \in DOMAIN ComponentsOf(created[f])[s][n]

\* The last fragment of merged_frags that satisfies Gives
LastGiver(Gives(_)) ==
    merged_frags[CHOOSE i \in DOMAIN merged_frags :
                    /\ Gives(merged_frags[i])
                    /\ \A j \in DOMAIN merged_frags : j > i => ~Gives(merged_frags[j])]

\* C12: the pages are visited one at a time in the order of the reference
\* groups and of the pages in each group, a page is merged in the step that
\* fetches it, and so each method and each component field of the tree has
\* the value given by the last page of that order that supplies it.
C12_ListOrderDecides ==
    /\ [](Seeded =>
            LET refs == cache_files[start_url]["sidebars"].refs
            IN page_list = refs[1].pages \o refs[2].pages)
    /\ [][/\ idx' \in {idx, idx + 1}
          /\ Seeded => page_list' = page_list
          /\ merged_frags' # merged_frags
                => /\ idx' = idx + 1
                   /\ last'.slug = page_list[idx].slug
                   /\ merged_frags' = Append(merged_frags, nfrag')
                   /\ MergedNow = cache_files'[PageUrl(page_list[idx].slug)]["oasDefinition"]]_vars
    /\ [](Seeded =>
            /\ \A p \in DOMAIN Tree["paths"] : \A m \in DOMAIN Tree["paths"][p] :
                  LET G(f) == GivesMethod(f, p, m)
                  IN /\ \E f \in MergedSet : G(f)
                     /\ Tree["paths"][p][m] = PathsOf(created[LastGiver(G)])[p][m]
            /\ \A s \in DOMAIN Tree["components"] :
               \A n \in DOMAIN Tree["components"][s] :
               \A x \in DOMAIN Tree["components"][s][n] :
                  LET G(f) == GivesField(f, s, n, x)
                  IN /\ \E f \in MergedSet : G(f)
                     /\ Tree["components"][s][n][x]
                           = ComponentsOf(created[LastGiver(G)])[s][n][x])

C12_Witness ==
    /\ pc = "done"
    /\ Len(page_list) = 3
    /\ page_list[1].slug # page_list[2].slug
    /\ Len(merged_frags) = 3
    /\ created[merged_frags[1]] = FragB
    /\ created[merged_frags[2]] = FragA
    /\ created[merged_frags[3]] = FragB
    /\ out_file["paths"]["/x"]["get"] = "new"

\* C13: the tree written to out/oas_definition.json has neither the key
\* "x-readme-fauxas" nor the key "_id".
C13_BookkeepingStripped ==
    written => ("x-readme-fauxas" \notin DOMAIN out_file /\ "_id" \notin DOMAIN out_file)

C13_Witness ==
    /\ written
    /\ {"x-readme-fauxas", "_id"} \subseteq DOMAIN created[1]
    /\ merged_frags # <<>>
    /\ \A f \in MergedSet : {"x-readme-fauxas", "_id"} \subseteq DOMAIN created[f]
    /\ "info" \in DOMAIN out_file

\* C14: a failure on the start page (a non-200 answer, a body without the
\* payload marker, a recovered payload without oasDefinition, a payload
\* without sidebars) ends the run: main is aborted, the only URL ever
\* requested is the start URL, nothing has been written, and nothing happens
\* after the abort.
C14_StartFailureTerminates ==
    /\ []((last.slug = "" /\ last.kind \in {"none", "raise"}) =>
            /\ pc = "aborted"
            /\ ~written
            /\ out_file = EmptyDict
            /\ fetched = {start_url}
            /\ idx = 1)
    /\ [][pc = "start" =>
            /\ last'.slug = ""
            /\ last'.kind \in {"start", "none", "raise"}
            /\ (last'.status # 200 => last'.kind = "none")]_vars
    /\ [][pc = "aborted" => vars' = vars]_vars

C14_Witness ==
    /\ pc = "aborted"
    /\ last = Event("none", "", 500)
    /\ ~written
    /\ fetched = {start_url}

\* The loop is about to fetch the page at idx
AtFetch ==
    /\ pc = "loop"
    /\ idx <= Len(page_list)
    /\ page_list[idx].slug \notin non_reference_pages

\* C15: a 404 answer is recorded for its URL and the record is never removed;
\* every later call for that URL returns None with no request made, and the
\* page is skipped: the tree, the caches and the run's course stay as they
\* are and the loop moves on to the next page.
C15_NotFoundPermanent ==
    /\ [][not_found \subseteq not_found']_vars
    /\ [][(pc = "start" /\ last'.status = 404) => start_url \in not_found']_vars
    /\ [][(AtFetch /\ last'.status = 404) =>
            PageUrl(page_list[idx].slug) \in not_found']_vars
    /\ [][(AtFetch /\ PageUrl(page_list[idx].slug) \in not_found) =>
            /\ last' = Event("none", page_list[idx].slug, 0)
            /\ heap' = heap
            /\ oas_definition' = oas_definition
            /\ cache_files' = cache_files
            /\ not_found' = not_found
            /\ merged_frags' = merged_frags
            /\ idx' = idx + 1
            /\ pc' = "loop"]_vars

C15_Witness ==
    /\ last = Event("none", "s1", 0)
    /\ PageUrl("s1") \in not_found
    /\ PageUrl("s1") \notin DOMAIN cache_files
    /\ pc = "loop"
    /\ idx >= 3

\* props has no oasDefinition key, or an empty one (line 213)
NoUsableOas(props) ==
    IF "oasDefinition" \in DOMAIN props THEN DOMAIN props["oasDefinition"] = {} ELSE TRUE

\* C16: when the payload that fetch_ssr_props returns for a reference page
\* (the one the cache file of the page holds after the call) has no
\* oasDefinition key or an empty oasDefinition, the page is skipped: no object
\* of the heap changes, nothing is merged, and the loop goes on with the next
\* page.
C16_NoOasSkipped ==
    [][(/\ AtFetch
        /\ PageUrl(page_list[idx].slug) \notin not_found
        /\ PageUrl(page_list[idx].slug) \in DOMAIN cache_files'
        /\ NoUsableOas(cache_files'[PageUrl(page_list[idx].slug)])) =>
            /\ last'.kind = "no_oas"
            /\ heap' = heap
            /\ oas_definition' = oas_definition
            /\ Tree' = Tree
            /\ merged_frags' = merged_frags
            /\ idx' = idx + 1
            /\ pc' = "loop"]_vars

C16_Witness ==
    /\ last.kind = "no_oas"
    /\ last.status = 200
    /\ "oasDefinition" \notin DOMAIN cache_files[PageUrl(last.slug)]
    /\ merged_frags # <<>>
    /\ Tree["paths"] # EmptyDict
    /\ pc = "loop"
    /\ idx <= Len(page_list)

\* C18: a call of fetch_ssr_props for a URL that was asked for before in this
\* run has the outcome of the earlier call: the data of the cache file when
\* the earlier call returned data (the cache file exists exactly then), None
\* when it returned None.
C18_FetchIdempotent ==
    [][(AtFetch /\ PageUrl(page_list[idx].slug) \in fetched) =>
          LET url == PageUrl(page_list[idx].slug)
          IN IF url \in DOMAIN cache_files
             THEN /\ last'.kind \in {"merged", "no_oas"}
                  /\ last'.status = 0
                  /\ cache_files'[url] = cache_files[url]
                  /\ last'.kind = "merged" => MergedNow = cache_files[url]["oasDefinition"]
             ELSE last'.kind = "none"]_vars

\* Key k of the accumulated tree is bound to the dict object main made for it
\* when seeding
SectionBound(k) ==
    /\ k \in DOMAIN heap[oas_definition]
    /\ heap[oas_definition][k] = Ref(Oid(0, <<k>>))
    /\ Oid(0, <<k>>) \in DOMAIN heap

\* C19: from seeding on, the accumulated tree is a dict with a paths key and
\* a components key, each bound to the dict main created for it at seeding
\* (also when the start fragment has no paths); no step of the loop and not
\* the stripping of the bookkeeping keys unbinds or rebinds either, and the
\* written document has both sections.
C19_SectionsAlwaysMappings ==
    /\ [](Seeded =>
            /\ oas_definition \in DOMAIN heap
            /\ SectionBound("paths")
            /\ SectionBound("components")
            /\ DOMAIN Tree["paths"] = DOMAIN heap[Oid(0, <<"paths">>)]
            /\ DOMAIN Tree["components"] = DOMAIN heap[Oid(0, <<"components">>)])
    /\ [][Seeded =>
            /\ oas_definition' = oas_definition
            /\ heap'[oas_definition]["paths"] = heap[oas_definition]["paths"]
            /\ heap'[oas_definition]["components"] = heap[oas_definition]["components"]]_vars
    /\ [](written => {"paths", "components"} \subseteq DOMAIN out_file)

C19_Witness ==
    /\ pc = "done"
    /\ written
    /\ created[1] = FragD
    /\ Len(page_list) = 3
    /\ Len(merged_frags) = 2
    /\ "/x" \in DOMAIN out_file["paths"]
    /\ "schemas" \in DOMAIN out_file["components"]

\* The top-level keys of tree t other than the two sections
TopKeys(t) == DOMAIN t \ {"paths", "components"}

\* C20: the top-level keys of the accumulated tree other than paths and
\* components are those of the start page's fragment, with the values they
\* have there, after any number of merges (and, once the run is done, without
\* the two bookkeeping keys); a merge step changes none of them and adds none
\* from the page's fragment.
C20_OnlySectionsChange ==
    /\ [](Seeded =>
            /\ TopKeys(Tree) =
                  TopKeys(created[1]) \ (IF pc = "done" THEN {"x-readme-fauxas", "_id"} ELSE {})
            /\ \A k \in TopKeys(Tree) : Tree[k] = created[1][k])
    /\ [][(IsPageStep /\ last'.kind = "merged") =>
            /\ TopKeys(Tree') = TopKeys(Tree)
            /\ \A k \in TopKeys(Tree) : Tree'[k] = Tree[k]]_vars

C20_Witness ==
    /\ pc = "loop"
    /\ created[1] = FragA
    /\ merged_frags # <<>>
    /\ created[merged_frags[Len(merged_frags)]] = FragB
    /\ Tree["info"] = "A"
    /\ "servers" \notin DOMAIN Tree
    /\ Tree["paths"]["/x"]["get"] = "new"

-----------------------------------------------------------------------------
(* Properties of parse_truncated_json *)

\* json_str is a whole document, not a proper prefix of one.
WholeDocument == Len(Strip(json_str)) = IF doc = <<>> THEN 2 ELSE doc[Len(doc)].end + 1

\* C6: for a prefix of a well-formed object the call returns a mapping that
\* has every top-level entry whose text lies wholly inside the prefix, with
\* its value.
C6_CompleteEntriesKept ==
    ppc = "done" =>
        \A i \in DOMAIN doc :
            doc[i].end <= Len(json_str) =>
                doc[i].key \in DOMAIN result /\ result[doc[i].key] = doc[i].val

\* C7: the scanner ends an entry at a character exactly when that character
\* is a comma between two top-level entries of the document, and then it is
\* outside every string with both depth counters at zero; so for a whole
\* document the candidate entries are the top-level entries, one per key.
C7_TopLevelCommasOnly ==
    /\ [][(ppc = "scan" /\ pos' = pos + 1)
           => /\ (current_pair' = <<>>)
                    <=> (content[pos] = "," /\ \E i \in DOMAIN doc : doc[i].end = pos)
              /\ (current_pair' = <<>>)
                    => (~in_string /\ ~escape_next /\ brace_count = 0 /\ bracket_count = 0)]_vars
    /\ []((ppc \in {"parse", "done"} /\ WholeDocument)
           => /\ Len(pairs) = Len(doc)
              /\ \A i \in DOMAIN doc : pairs[i] = doc[i].text)

C7_Witness ==
    /\ ppc = "done"
    /\ WholeDocument
    /\ Len(doc) = 2
    /\ Len(pairs) = 2
    /\ doc[1].val = <<"[", "1", ",", Q, "]", Q, "]">>
    /\ doc[2].val = <<Q, BS, Q, ",", Q>>
    /\ DOMAIN result = {<<"a">>, <<"b">>}

\* C17: every entry of the returned mapping is an entry of the document whose
\* text lies wholly inside the prefix, with the value the document gives it;
\* an entry cut by the truncation is not returned.
C17_OnlyCompleteEntries ==
    ppc = "done" =>
        \A k \in DOMAIN result :
            \E i \in DOMAIN doc :
                /\ doc[i].key = k
                /\ result[k] = doc[i].val
                /\ doc[i].end <= Len(json_str)

====
